---- MODULE Spec2Model ----
(***************************************************************************)
(* BlueDucky: the L2CAP HID session (L2CAPClient, L2CAPConnectionManager), *)
(* the Duckyscript interpreter (process_duckyscript) and the session       *)
(* controller loop of main, modelled from src/BlueDucky.py.                *)
(*                                                                         *)
(* Text is modelled as sequences of one-character strings, so that         *)
(* slicing, strip, startswith, split and substring search are computed as  *)
(* Python computes them.                                                   *)
(***************************************************************************)
EXTENDS Integers, Sequences, FiniteSets, TLC

(***************************************************************************)
(* Bounds of the model                                                     *)
(***************************************************************************)
\* faults the socket layer injects per session: sends that fail with a
\* transport error, and sends whose 500 ms window elapses on would-block
MaxFaults == 2
\* sockets the harness of ClientSpec may open
MaxSocks == 3
MaxArgs == 8
MaxTokens == 2

(***************************************************************************)
(* Python string operations on sequences of characters                     *)
(***************************************************************************)
WS == {" ", "\t"}

RECURSIVE lstrip(_)
lstrip(s) == IF s # <<>> /\ Head(s) \in WS THEN lstrip(Tail(s)) ELSE s

RECURSIVE rstrip(_)
rstrip(s) ==
    IF s # <<>> /\ s[Len(s)] \in WS THEN rstrip(SubSeq(s, 1, Len(s) - 1)) ELSE s

strip(s) == rstrip(lstrip(s))

\* s[k:]
slice(s, k) == SubSeq(s, k + 1, Len(s))

startswith(s, p) == Len(s) >= Len(p) /\ SubSeq(s, 1, Len(p)) = p

\* p in s
contains(s, p) ==
    \E i \in 0..(Len(s) - Len(p)) : SubSeq(s, i + 1, i + Len(p)) = p

\* s.split(): the maximal runs of non-whitespace characters
RECURSIVE split(_)
split(s) ==
    LET t == lstrip(s)
        n == IF \E i \in 1..Len(t) : t[i] \in WS
             THEN (CHOOSE i \in 1..Len(t) :
                     t[i] \in WS /\ \A j \in 1..(i - 1) : t[j] \notin WS) - 1
             ELSE Len(t)
    IN IF t = <<>> THEN <<>>
       ELSE <<SubSeq(t, 1, n)>> \o split(SubSeq(t, n + 1, Len(t)))

\* the Python str of a sequence of characters
RECURSIVE join(_)
join(s) == IF s = <<>> THEN "" ELSE Head(s) \o join(Tail(s))

Digits == {"0", "1", "2", "3", "4", "5", "6", "7", "8", "9"}
Lower == <<"a", "b", "c", "d", "e", "f", "g", "h", "i", "j", "k", "l", "m",
           "n", "o", "p", "q", "r", "s", "t", "u", "v", "w", "x", "y", "z">>
Upper == <<"A", "B", "C", "D", "E", "F", "G", "H", "I", "J", "K", "L", "M",
           "N", "O", "P", "Q", "R", "S", "T", "U", "V", "W", "X", "Y", "Z">>

isupper(ch) == \E i \in 1..26 : Upper[i] = ch
islower(ch) == \E i \in 1..26 : Lower[i] = ch
isalpha(ch) == isupper(ch) \/ islower(ch)
isdigit(ch) == ch \in Digits
lower(ch) == IF isupper(ch) THEN Lower[CHOOSE i \in 1..26 : Upper[i] = ch] ELSE ch
upper(ch) == IF islower(ch) THEN Upper[CHOOSE i \in 1..26 : Lower[i] = ch] ELSE ch
lowerstr(s) == join([i \in 1..Len(s) |-> lower(s[i])])
upperstr(s) == join([i \in 1..Len(s) |-> upper(s[i])])

(***************************************************************************)
(* Key/Modifier encoding tables                                            *)
(***************************************************************************)
Modifier_Codes ==
    "CTRL" :> 1 @@ "RIGHTCTRL" :> 16 @@ "SHIFT" :> 2 @@ "RIGHTSHIFT" :> 32 @@
    "ALT" :> 4 @@ "RIGHTALT" :> 64 @@ "GUI" :> 8 @@ "WINDOWS" :> 8 @@
    "COMMAND" :> 8 @@ "RIGHTGUI" :> 128

Key_Codes ==
    "NONE" :> 0 @@
    "a" :> 4 @@ "b" :> 5 @@ "c" :> 6 @@ "d" :> 7 @@ "e" :> 8 @@ "f" :> 9 @@
    "g" :> 10 @@ "h" :> 11 @@ "i" :> 12 @@ "j" :> 13 @@ "k" :> 14 @@
    "l" :> 15 @@ "m" :> 16 @@ "n" :> 17 @@ "o" :> 18 @@ "p" :> 19 @@
    "q" :> 20 @@ "r" :> 21 @@ "s" :> 22 @@ "t" :> 23 @@ "u" :> 24 @@
    "v" :> 25 @@ "w" :> 26 @@ "x" :> 27 @@ "y" :> 28 @@ "z" :> 29 @@
    "_1" :> 30 @@ "_2" :> 31 @@ "_3" :> 32 @@ "_4" :> 33 @@ "_5" :> 34 @@
    "_6" :> 35 @@ "_7" :> 36 @@ "_8" :> 37 @@ "_9" :> 38 @@ "_0" :> 39 @@
    "ENTER" :> 40 @@ "ESCAPE" :> 41 @@ "BACKSPACE" :> 42 @@ "TAB" :> 43 @@
    "SPACE" :> 44 @@ "MINUS" :> 45 @@ "EQUAL" :> 46 @@ "LEFTBRACE" :> 47 @@
    "RIGHTBRACE" :> 48 @@ "CAPSLOCK" :> 57 @@ "VOLUME_UP" :> 59 @@
    "VOLUME_DOWN" :> 238 @@ "SEMICOLON" :> 51 @@ "COMMA" :> 54 @@
    "PERIOD" :> 55 @@ "SLASH" :> 56 @@ "PIPE" :> 49 @@ "BACKSLASH" :> 49 @@
    "GRAVE" :> 53 @@ "APOSTROPHE" :> 52 @@ "LEFT_BRACKET" :> 47 @@
    "RIGHT_BRACKET" :> 48 @@ "DOT" :> 55 @@ "RIGHT" :> 79 @@ "LEFT" :> 80 @@
    "DOWN" :> 81 @@ "UP" :> 82 @@ "EXCLAMATION_MARK" :> 30 @@
    "AT_SYMBOL" :> 31 @@ "HASHTAG" :> 32 @@ "DOLLAR" :> 33 @@
    "PERCENT_SYMBOL" :> 34 @@ "CARET_SYMBOL" :> 35 @@
    "AMPERSAND_SYMBOL" :> 36 @@ "ASTERISK_SYMBOL" :> 37 @@
    "OPEN_PARENTHESIS" :> 38 @@ "CLOSE_PARENTHESIS" :> 39 @@
    "UNDERSCORE_SYMBOL" :> 45 @@ "QUOTE" :> 52 @@ "QUESTIONMARK" :> 56 @@
    "KEYPADPLUS" :> 87

\* arguments of encode_keyboard_input: a Key_Codes member, a Modifier_Codes
\* member, or any other object (a str)
Key(name) == [t |-> "key", v |-> Key_Codes[name]]
Mod(name) == [t |-> "mod", v |-> Modifier_Codes[name]]
Other(s) == [t |-> "other", v |-> s]

\* shift_char_map.get(char): the Key_Codes member name, "" for None
char_to_key_code(ch) ==
    LET shift_char_map ==
          "!" :> "EXCLAMATION_MARK" @@ "@" :> "AT_SYMBOL" @@ "#" :> "HASHTAG" @@
          "$" :> "DOLLAR" @@ "%" :> "PERCENT_SYMBOL" @@ "^" :> "CARET_SYMBOL" @@
          "&" :> "AMPERSAND_SYMBOL" @@ "*" :> "ASTERISK_SYMBOL" @@
          "(" :> "OPEN_PARENTHESIS" @@ ")" :> "CLOSE_PARENTHESIS" @@
          "_" :> "UNDERSCORE_SYMBOL" @@ "+" :> "KEYPADPLUS" @@
          "{" :> "LEFTBRACE" @@ "}" :> "RIGHTBRACE" @@ ":" :> "SEMICOLON" @@
          "\\" :> "BACKSLASH" @@ "\"" :> "QUOTE" @@ "<" :> "COMMA" @@
          ">" :> "DOT" @@ "?" :> "QUESTIONMARK"
    IN IF isupper(ch) THEN lower(ch)
       ELSE IF ch \in DOMAIN shift_char_map THEN shift_char_map[ch]
       ELSE ""

(***************************************************************************)
(* HID report encoder                                                      *)
(***************************************************************************)
\* bitwise OR of two bytes
RECURSIVE bor(_, _)
bor(x, y) ==
    IF x = 0 THEN y
    ELSE IF y = 0 THEN x
    ELSE (IF x % 2 = 1 \/ y % 2 = 1 THEN 1 ELSE 0) + 2 * bor(x \div 2, y \div 2)

RECURSIVE orAll(_)
orAll(vs) == IF vs = <<>> THEN 0 ELSE bor(Head(vs), orAll(Tail(vs)))

zeros(n) == [i \in 1..n |-> 0]

\* the encoder adding the modifier values up
encode_keyboard_input_adding(args) ==
    LET keycodes == SelectSeq(args, LAMBDA a : a.t = "key")
        mods == SelectSeq(args, LAMBDA a : a.t = "mod")
        RECURSIVE sum(_)
        sum(vs) == IF vs = <<>> THEN 0 ELSE (Head(vs) + sum(Tail(vs))) % 256
        flags == sum([i \in 1..Len(mods) |-> mods[i].v])
    IN IF Len(keycodes) > 7 THEN <<"AssertionError">>
       ELSE <<161, 1, flags, 0>> \o [i \in 1..Len(keycodes) |-> keycodes[i].v]
                \o zeros(7 - Len(keycodes))

\* the encoder with six keycode slots
encode_keyboard_input_six_slots(args) ==
    LET keycodes == SelectSeq(args, LAMBDA a : a.t = "key")
        mods == SelectSeq(args, LAMBDA a : a.t = "mod")
        flags == orAll([i \in 1..Len(mods) |-> mods[i].v])
    IN IF Len(keycodes) > 6 THEN <<"AssertionError">>
       ELSE <<161, 1, flags, 0>> \o [i \in 1..Len(keycodes) |-> keycodes[i].v]
                \o zeros(6 - Len(keycodes))

\* the encoder without its assert statement
encode_keyboard_input_unasserted(args) ==
    LET keycodes == SelectSeq(args, LAMBDA a : a.t = "key")
        mods == SelectSeq(args, LAMBDA a : a.t = "mod")
        flags == orAll([i \in 1..Len(mods) |-> mods[i].v])
    IN <<161, 1, flags, 0>> \o [i \in 1..Len(keycodes) |-> keycodes[i].v]
          \o zeros(IF Len(keycodes) > 7 THEN 0 ELSE 7 - Len(keycodes))

\* the report, or "AssertionError"
encode_keyboard_input(args) ==
    LET keycodes == SelectSeq(args, LAMBDA a : a.t = "key")
        mods == SelectSeq(args, LAMBDA a : a.t = "mod")
        flags == orAll([i \in 1..Len(mods) |-> mods[i].v])
    IN IF Len(keycodes) > 7 THEN <<"AssertionError">>
       ELSE <<161, 1, flags, 0>> \o [i \in 1..Len(keycodes) |-> keycodes[i].v]
                \o zeros(7 - Len(keycodes))

(***************************************************************************)
(* Duckyscript programs: the lines read_duckyscript returns (stripped)     *)
(***************************************************************************)
L_BLANK == <<>>
L_REM == <<"R", "E", "M", " ", "x">>
L_TAB == <<"T", "A", "B">>
L_ENTER == <<"E", "N", "T", "E", "R">>
L_DELAY == <<"D", "E", "L", "A", "Y", " ", "5">>
L_STRING_AB == <<"S", "T", "R", "I", "N", "G", " ", "A", "B">>
L_SHIFT_a == <<"S", "H", "I", "F", "T", " ", "a">>
L_FOOBAR == <<"F", "O", "O", "B", "A", "R", " ", "x", "y", "z">>
L_DELAY_NOARG == <<"D", "E", "L", "A", "Y">>
L_DELAY_x == <<"D", "E", "L", "A", "Y", " ", "x">>
L_DELAY_HUGE ==
    <<"D", "E", "L", "A", "Y", " ", "9", "9", "9", "9", "9", "9", "9", "9", "9", "9", "9", "9", "9", "9">>
L_CTRL_ENTER == <<"C", "T", "R", "L", " ", "E", "N", "T", "E", "R">>
L_SHIFT_a_extra ==
    <<"S", "H", "I", "F", "T", " ", "a", " ", "e", "x", "t", "r", "a">>
L_PRIVATE_BROWSER ==
    <<"P", "R", "I", "V", "A", "T", "E", "_", "B", "R", "O", "W", "S", "E", "R">>
L_VOLUME_UP == <<"V", "O", "L", "U", "M", "E", "_", "U", "P">>
L_STRING_UNSUPPORTED ==
    <<"S", "T", "R", "I", "N", "G", " ", "a", "~", "é", "b">>

\* the payloads a session is run on
Scripts ==
    {<<L_STRING_AB>>,
     <<L_TAB, L_ENTER>>,
     <<L_DELAY, L_STRING_AB>>,
     <<L_REM, L_TAB, L_ENTER>>,
     <<L_BLANK, L_SHIFT_a, L_STRING_AB>>,
     <<L_FOOBAR, L_TAB>>,
     <<L_REM, L_FOOBAR, L_TAB>>,
     <<L_CTRL_ENTER, L_SHIFT_a_extra, L_TAB>>,
     <<L_DELAY_NOARG, L_DELAY_x, L_TAB>>,
     <<L_DELAY_HUGE, L_TAB>>,
     <<L_PRIVATE_BROWSER, L_VOLUME_UP>>,
     <<L_STRING_UNSUPPORTED>>}

(***************************************************************************)
(* State                                                                   *)
(***************************************************************************)
VARIABLES
    script,            \* duckyscript: the list of lines main read
    pc,                \* position of the control thread
    saved_line,        \* main: current_line
    saved_position,    \* main: current_position
    clients,           \* L2CAPConnectionManager.clients: port -> L2CAPClient
    openSocks,         \* L2CAP sockets connected and not closed
    nextSock,          \* next socket identity
    nextObj,           \* next L2CAPClient object identity
    closedObjs,        \* identities of the clients main's close_all closed
    agents,            \* the pairing agent processes started, one per
                       \* __enter__: "running" or "killed"
    removed,           \* "remove <target>" commands issued to bluetoothctl
    iter,              \* iterations of main's while loop entered
    current_line,      \* process_duckyscript: current_line
    current_position,  \* process_duckyscript: current_position
    line_number,       \* process_duckyscript: index of the enumerate loop
    text,              \* process_duckyscript: text of the STRING line
    ci,                \* characters of text the inner loop has passed
    exc,               \* exception in flight or being handled
    sent,              \* reports written to the socket: [run, ln, pos, rep]
    run,               \* calls of process_duckyscript so far
    runs,              \* per call: its arguments and how it ended
    faults,            \* faults injected so far
    last,              \* ClientSpec: the last call on a client and its result
    enc_args,          \* EncodeSpec: the arguments of encode_keyboard_input
    enc_report         \* EncodeSpec: what the call returned or raised

vars == <<script, pc, saved_line, saved_position, clients, openSocks, nextSock,
          nextObj, closedObjs, agents, removed, iter, current_line,
          current_position, line_number, text, ci, exc, sent, run, runs, faults,
          last, enc_args, enc_report>>

ctlVars == <<saved_line, saved_position, agents, removed, iter>>
mgrVars == <<clients, openSocks, nextSock, nextObj, closedObjs>>
interpVars == <<current_line, current_position, line_number, text, ci>>
logVars == <<sent, run, runs, faults>>
encVars == <<enc_args, enc_report>>

Ports == <<1, 17, 19>>

NoExc == [type |-> "none", line |-> 0, pos |-> 0, port |-> 0]
ReconnectionRequiredException(l, p) ==
    [type |-> "ReconnectionRequired", line |-> l, pos |-> p, port |-> 0]
ConnectionFailureException(port) ==
    [type |-> "ConnectionFailure", line |-> 0, pos |-> 0, port |-> port]
OtherException == [type |-> "Exception", line |-> 0, pos |-> 0, port |-> 0]
Handled == [type |-> "handled", line |-> 0, pos |-> 0, port |-> 0]

(***************************************************************************)
(* L2CAPClient                                                             *)
(***************************************************************************)
\* L2CAPClient.__init__; sock 0 is None
L2CAPClient(id) == [id |-> id, connected |-> FALSE, sock |-> 0]

\* what the socket layer answers to the writes of one attempt_send:
\*   ok      a sock.send is accepted within the window
\*   eagain  every sock.send in the 500 ms window fails with errno 11
\*   bterr   a sock.send fails with a BluetoothError other than errno 11
\*   oserr   a sock.send fails with an exception that is no BluetoothError
SockOutcomes == {"ok", "eagain", "bterr", "oserr"}
Raising == {"bterr", "oserr"}

attempt_send(o) ==
    CASE o = "ok" -> "sent"
      [] o = "eagain" -> "elapsed"
      [] o = "bterr" -> "BluetoothError"
      [] o = "oserr" -> "Exception"

\* send that forces the client to unconnected on a transport error
send_invalidating(c, data, o) ==
    IF ~c.connected
    THEN [raised |-> "ReconnectionRequired", wrote |-> FALSE, tries |-> 0,
          client |-> c]
    ELSE LET a == attempt_send(o)
         IN CASE a = "sent" ->
                   [raised |-> "none", wrote |-> TRUE, tries |-> 1, client |-> c]
              [] a = "elapsed" ->
                   [raised |-> "none", wrote |-> FALSE, tries |-> 1, client |-> c]
              [] a = "BluetoothError" ->
                   [raised |-> "ReconnectionRequired", wrote |-> FALSE, tries |-> 1,
                    client |-> [c EXCEPT !.connected = FALSE]]
              [] a = "Exception" ->
                   [raised |-> "Exception", wrote |-> FALSE, tries |-> 1,
                    client |-> c]

\* send without the connected check of lines 194-196
send_unchecked(c, data, o) ==
    LET a == attempt_send(o)
    IN CASE a = "sent" ->
              [raised |-> "none", wrote |-> TRUE, tries |-> 1, client |-> c]
         [] a = "elapsed" ->
              [raised |-> "none", wrote |-> FALSE, tries |-> 1, client |-> c]
         [] a = "BluetoothError" ->
              [raised |-> "ReconnectionRequired", wrote |-> FALSE, tries |-> 1,
               client |-> c]
         [] a = "Exception" ->
              [raised |-> "Exception", wrote |-> FALSE, tries |-> 1,
               client |-> c]

\* send whose reconnect() returns: the self-call of line 205 writes the data
send_retrying(c, data, o) ==
    IF ~c.connected
    THEN [raised |-> "ReconnectionRequired", wrote |-> FALSE, tries |-> 0,
          client |-> c]
    ELSE LET a == attempt_send(o)
         IN CASE a = "sent" ->
                   [raised |-> "none", wrote |-> TRUE, tries |-> 1, client |-> c]
              [] a = "elapsed" ->
                   [raised |-> "none", wrote |-> FALSE, tries |-> 1, client |-> c]
              [] a = "BluetoothError" ->
                   [raised |-> "none", wrote |-> TRUE, tries |-> 2, client |-> c]
              [] a = "Exception" ->
                   [raised |-> "Exception", wrote |-> FALSE, tries |-> 1,
                    client |-> c]

\* the call's effect: the exception raised, whether data was written, how
\* often attempt_send was called, and the client afterwards
send(c, data, o) ==
    IF ~c.connected
    THEN [raised |-> "ReconnectionRequired", wrote |-> FALSE, tries |-> 0,
          client |-> c]
    ELSE LET a == attempt_send(o)
         IN CASE a = "sent" ->
                   [raised |-> "none", wrote |-> TRUE, tries |-> 1, client |-> c]
              [] a = "elapsed" ->
                   [raised |-> "none", wrote |-> FALSE, tries |-> 1, client |-> c]
              [] a = "BluetoothError" ->
                   [raised |-> "ReconnectionRequired", wrote |-> FALSE, tries |-> 1,
                    client |-> c]
              [] a = "Exception" ->
                   [raised |-> "Exception", wrote |-> FALSE, tries |-> 1,
                    client |-> c]

\* close(): the client afterwards
close(c) == [c EXCEPT !.connected = FALSE, !.sock = 0]
\* close(): the open sockets afterwards
closeSocks(c, socks) == IF c.connected THEN socks \ {c.sock} ELSE socks

\* connect() that succeeds on socket s
connect(c, s) == [c EXCEPT !.connected = TRUE, !.sock = s]
\* connect() that fails: ConnectionFailureException is raised
connectFailed(c) == [c EXCEPT !.connected = FALSE]

\* what the socket layer answers to the sock.recv of one recv:
\*   data    bytes arrive
\*   eof     a zero-length read: the peer disconnected
\*   eagain  errno 11 until the timeout has elapsed
\*   bterr   a BluetoothError other than errno 11
RecvOutcomes == {"data", "eof", "eagain", "bterr"}

\* recv(): what it returns or raises, and the client afterwards
recv(c, o) ==
    IF ~c.connected \/ c.sock = 0
    THEN [raised |-> "none", ret |-> "None", client |-> c]
    ELSE CASE o = "data" -> [raised |-> "none", ret |-> "raw", client |-> c]
           [] o = "eof" -> [raised |-> "none", ret |-> "None",
                            client |-> [c EXCEPT !.connected = FALSE]]
           [] o = "eagain" -> [raised |-> "none", ret |-> "None", client |-> c]
           [] o = "bterr" -> [raised |-> "BluetoothError", ret |-> "None",
                              client |-> c]

\* send_keypress without the release report
send_keypress_holding(args) ==
    IF args # <<>>
    THEN <<encode_keyboard_input(args)>>
    ELSE <<encode_keyboard_input(<<>>)>>

send_keypress(args) ==
    IF args # <<>>
    THEN <<encode_keyboard_input(args), encode_keyboard_input(<<>>)>>
    ELSE <<encode_keyboard_input(<<>>)>>

send_keyboard_combination(modifier, key) ==
    <<encode_keyboard_input(<<modifier, key>>), encode_keyboard_input(<<>>)>>

\* a sequence of sends on client c, report by report, answered by o; stops at
\* the first send that raises
RECURSIVE transmit(_, _, _)
transmit(c, reps, o) ==
    IF reps = <<>>
    THEN [raised |-> "none", wrote |-> <<>>, lost |-> 0, client |-> c]
    ELSE LET r == send(c, Head(reps), Head(o))
         IN IF r.raised # "none"
            THEN [raised |-> r.raised, wrote |-> <<>>, lost |-> 0,
                  client |-> r.client]
            ELSE LET rest == transmit(r.client, Tail(reps), Tail(o))
                 IN [raised |-> rest.raised,
                     wrote |-> (IF r.wrote THEN <<Head(reps)>> ELSE <<>>)
                                 \o rest.wrote,
                     lost |-> rest.lost + (IF r.wrote THEN 0 ELSE 1),
                     client |-> rest.client]

\* the answers to n sends; nothing is asked after a send that raised
OutcomeSeqs(n) ==
    {o \in [1..n -> SockOutcomes] :
        \A i, j \in 1..n : (i < j /\ o[i] \in Raising) => o[j] = "ok"}

(***************************************************************************)
(* process_duckyscript                                                     *)
(***************************************************************************)
S_REM == <<"R", "E", "M">>
S_TAB == <<"T", "A", "B">>
S_PRIVATE_BROWSER ==
    <<"P", "R", "I", "V", "A", "T", "E", "_", "B", "R", "O", "W", "S", "E", "R">>
S_VOLUME_UP == <<"V", "O", "L", "U", "M", "E", "_", "U", "P">>
S_DELAY == <<"D", "E", "L", "A", "Y">>
S_STRING == <<"S", "T", "R", "I", "N", "G">>
S_ENTER == <<"E", "N", "T", "E", "R">>
ModifierWords ==
    {<<"S", "H", "I", "F", "T">>, <<"A", "L", "T">>, <<"C", "T", "R", "L">>,
     <<"G", "U", "I">>, <<"C", "O", "M", "M", "A", "N", "D">>,
     <<"W", "I", "N", "D", "O", "W", "S">>}

\* the three checks with TAB looked for anywhere in the line
pre_reports_anywhere(line) ==
    (IF contains(line, S_TAB) THEN send_keypress(<<Key("TAB")>>) ELSE <<>>)
    \o (IF startswith(line, S_PRIVATE_BROWSER)
        THEN << <<161, 1, bor(Modifier_Codes["CTRL"], Modifier_Codes["SHIFT"]), 0,
                  Key_Codes["n"], 0, 0, 0, 0, 0, 0>>,
                <<161, 1, 0, 0, 0, 0, 0, 0, 0, 0, 0>> >>
        ELSE <<>>)
    \o (IF startswith(line, S_VOLUME_UP)
        THEN << <<161, 1, 8, 0, 25, 0, 0, 0, 0, 0>> >>
             \o send_keypress(<<Key("TAB")>>)
             \o << <<161, 1, 8, 0, 25, 87, 0, 0, 0, 0>>,
                   <<161, 1, 0, 0, 0, 0, 0, 0, 0, 0>> >>
        ELSE <<>>)

\* the reports of the TAB, PRIVATE_BROWSER and VOLUME_UP checks, in order
pre_reports(line) ==
    (IF startswith(line, S_TAB) THEN send_keypress(<<Key("TAB")>>) ELSE <<>>)
    \o (IF startswith(line, S_PRIVATE_BROWSER)
        THEN << <<161, 1, bor(Modifier_Codes["CTRL"], Modifier_Codes["SHIFT"]), 0,
                  Key_Codes["n"], 0, 0, 0, 0, 0, 0>>,
                <<161, 1, 0, 0, 0, 0, 0, 0, 0, 0, 0>> >>
        ELSE <<>>)
    \o (IF startswith(line, S_VOLUME_UP)
        THEN << <<161, 1, 8, 0, 25, 0, 0, 0, 0, 0>> >>
             \o send_keypress(<<Key("TAB")>>)
             \o << <<161, 1, 8, 0, 25, 87, 0, 0, 0, 0>>,
                   <<161, 1, 0, 0, 0, 0, 0, 0, 0, 0>> >>
        ELSE <<>>)

is_delay(line) == startswith(line, S_DELAY)

\* int(tok) succeeds: an optional sign, then digits, single underscores allowed
\* between digits
is_int_literal(tok) ==
    LET body == IF tok # <<>> /\ tok[1] \in {"+", "-"} THEN Tail(tok) ELSE tok
    IN /\ body # <<>>
       /\ \A i \in 1..Len(body) : isdigit(body[i]) \/ body[i] = "_"
       /\ isdigit(body[1])
       /\ isdigit(body[Len(body)])
       /\ \A i \in 1..(Len(body) - 1) : ~(body[i] = "_" /\ body[i + 1] = "_")

\* the digits of an integer literal that carry its magnitude
RECURSIVE significant(_)
significant(ds) ==
    IF ds # <<>> /\ ds[1] = "0" THEN significant(Tail(ds)) ELSE ds
magnitude(tok) == significant(SelectSeq(tok, isdigit))

\* time.sleep takes at most 2^63 - 1 nanoseconds: a delay of this many digits
\* of milliseconds is out of its range
SleepOverflowDigits == 14

\* the DELAY branch without its two except clauses
delay_uncaught(line) ==
    LET parts == split(line)
    IN IF Len(parts) >= 2 /\ is_int_literal(parts[2])
          /\ ~(parts[2][1] = "-" /\ magnitude(parts[2]) # <<>>)
          /\ Len(magnitude(parts[2])) < SleepOverflowDigits
       THEN "slept"
       ELSE "Exception"

\* the DELAY branch: int(line.split()[1]) and time.sleep(delay_time / 1000);
\* ValueError and IndexError are caught there, anything else is not
delay(line) ==
    LET parts == split(line)
    IN IF Len(parts) < 2 THEN "IndexError"
       ELSE IF ~is_int_literal(parts[2]) THEN "ValueError"
       ELSE IF parts[2][1] = "-" /\ magnitude(parts[2]) # <<>> THEN "ValueError"
       ELSE IF Len(magnitude(parts[2])) >= SleepOverflowDigits
       THEN "OverflowError"
       ELSE "slept"
is_string(line) == startswith(line, S_STRING)
is_modifier(line) == \E m \in ModifierWords : contains(line, m)

\* the reports of the modifier and ENTER branches (the elif chain after STRING)
post_reports(line) ==
    IF is_modifier(line)
    THEN LET components == split(line)
         IN IF Len(components) = 2
               /\ upperstr(components[1]) \in DOMAIN Modifier_Codes
               /\ lowerstr(components[2]) \in DOMAIN Key_Codes
            THEN send_keyboard_combination(Mod(upperstr(components[1])),
                                           Key(lowerstr(components[2])))
            ELSE <<>>
    ELSE IF startswith(line, S_ENTER) THEN send_keypress(<<Key("ENTER")>>)
    ELSE <<>>

PlainChars ==
    " " :> "SPACE" @@ "[" :> "LEFTBRACE" @@ "]" :> "RIGHTBRACE" @@
    ";" :> "SEMICOLON" @@ "'" :> "QUOTE" @@ "/" :> "SLASH" @@ "." :> "DOT" @@
    "," :> "COMMA" @@ "|" :> "PIPE" @@ "-" :> "MINUS" @@ "=" :> "EQUAL"

ShiftSymbols ==
    {"!", "@", "#", "$", "%", "^", "&", "*", "(", ")", "_", "+", "{", "}", "|",
     ":", "\"", "<", ">", "?"}
shift_required(ch) == ch \in ShiftSymbols \/ isupper(ch)

\* letters and digits outside ASCII: isalpha()/isdigit() hold and Key_Codes has
\* no member for them
NonAscii == {"é", "²"}

\* the STRING loop pressing the NONE key for a character it has no member for
char_reports_pressing_none(ch) ==
    IF isdigit(ch)
    THEN [reps |-> send_keypress(<<Key("_" \o ch)>>), attrerr |-> FALSE]
    ELSE IF ch \in NonAscii
    THEN [reps |-> send_keypress(<<Key("NONE")>>), attrerr |-> FALSE]
    ELSE IF ch \in DOMAIN PlainChars
    THEN [reps |-> send_keypress(<<Key(PlainChars[ch])>>), attrerr |-> FALSE]
    ELSE IF shift_required(ch)
    THEN [reps |-> IF char_to_key_code(ch) # ""
                   THEN send_keyboard_combination(Mod("SHIFT"),
                                                  Key(char_to_key_code(ch)))
                   ELSE send_keypress(<<Key("NONE")>>),
          attrerr |-> FALSE]
    ELSE IF isalpha(ch)
    THEN [reps |-> IF isupper(ch)
                   THEN send_keyboard_combination(Mod("SHIFT"), Key(lower(ch)))
                   ELSE send_keypress(<<Key(lower(ch))>>),
          attrerr |-> FALSE]
    ELSE [reps |-> IF char_to_key_code(ch) # ""
                   THEN send_keypress(<<Other(char_to_key_code(ch))>>)
                   ELSE send_keypress(<<Key("NONE")>>),
          attrerr |-> FALSE]

\* one character of a STRING text: its reports, and whether AttributeError
\* was raised before current_position was assigned
char_reports(ch) ==
    IF isdigit(ch)
    THEN [reps |-> send_keypress(<<Key("_" \o ch)>>), attrerr |-> FALSE]
    ELSE IF ch \in NonAscii THEN [reps |-> <<>>, attrerr |-> TRUE]
    ELSE IF ch \in DOMAIN PlainChars
    THEN [reps |-> send_keypress(<<Key(PlainChars[ch])>>), attrerr |-> FALSE]
    ELSE IF shift_required(ch)
    THEN [reps |-> IF char_to_key_code(ch) # ""
                   THEN send_keyboard_combination(Mod("SHIFT"),
                                                  Key(char_to_key_code(ch)))
                   ELSE <<>>,
          attrerr |-> FALSE]
    ELSE IF isalpha(ch)
    THEN [reps |-> IF isupper(ch)
                   THEN send_keyboard_combination(Mod("SHIFT"), Key(lower(ch)))
                   ELSE send_keypress(<<Key(lower(ch))>>),
          attrerr |-> FALSE]
    ELSE [reps |-> IF char_to_key_code(ch) # ""
                   THEN send_keypress(<<Other(char_to_key_code(ch))>>)
                   ELSE <<>>,
          attrerr |-> FALSE]

\* lines 298-302: the line the iteration works on and current_position
resumed == line_number = current_line /\ current_position > 0
eff_line ==
    strip(IF resumed THEN slice(script[line_number + 1], current_position)
          ELSE script[line_number + 1])
eff_position == IF resumed THEN current_position ELSE 0

\* the entries of the log for the reports res wrote
Logged(res, ln, pos) ==
    sent \o [i \in 1..Len(res.wrote) |->
               [run |-> run, ln |-> ln, pos |-> pos, rep |-> res.wrote[i]]]

Injected(res) ==
    res.lost + (IF res.raised = "ReconnectionRequired" THEN 1 ELSE 0)

Budget(res) == faults + Injected(res) <= MaxFaults

Counted(res) == faults' = faults + Injected(res)

EndRun(how, ln, pos) ==
    runs' = [runs EXCEPT ![run] = [@ EXCEPT !.end = how, !.ln = ln,
                                              !.pos_end = pos]]

\* the except clauses with the second one raising what it caught
RaisedInLoop_reraising(res, cl, cp, ln, pos) ==
    IF res.raised = "ReconnectionRequired"
    THEN /\ exc' = ReconnectionRequiredException(cl, cp)
         /\ pc' = "except"
         /\ EndRun("ReconnectionRequired", ln, pos)
    ELSE /\ exc' = OtherException
         /\ pc' = "finally"
         /\ EndRun("Exception", ln, pos)

\* the except clauses of lines 401-404 for what a send inside the loop raised
RaisedInLoop(res, cl, cp, ln, pos) ==
    IF res.raised = "ReconnectionRequired"
    THEN /\ exc' = ReconnectionRequiredException(cl, cp)
         /\ pc' = "except"
         /\ EndRun("ReconnectionRequired", ln, pos)
    ELSE /\ exc' = NoExc
         /\ pc' = "finally"
         /\ EndRun("swallowed", ln, pos)

\* for line_number, line in enumerate(duckyscript): line_number < current_line
SkipLine ==
    /\ pc = "line"
    /\ line_number < Len(script)
    /\ line_number < current_line
    /\ line_number' = line_number + 1
    /\ UNCHANGED <<encVars, script, pc, ctlVars, mgrVars, current_line, current_position,
                   text, ci, exc, logVars, last>>

\* a blank or REM line: continue
NoOpLine ==
    /\ pc = "line"
    /\ line_number < Len(script)
    /\ line_number >= current_line
    /\ eff_line = <<>> \/ startswith(eff_line, S_REM)
    /\ current_position' = eff_position
    /\ line_number' = line_number + 1
    /\ UNCHANGED <<encVars, script, pc, ctlVars, mgrVars, current_line, text, ci, exc,
                   logVars, last>>

\* any other line, up to the STRING loop or the end of the loop body
CommandLine ==
    /\ pc = "line"
    /\ line_number < Len(script)
    /\ line_number >= current_line
    /\ ~(eff_line = <<>> \/ startswith(eff_line, S_REM))
    /\ LET line == eff_line
           reps == pre_reports(line)
                     \o (IF is_delay(line) \/ is_string(line) THEN <<>>
                         ELSE post_reports(line))
       IN \E o \in OutcomeSeqs(Len(reps)) :
            LET res == transmit(clients[19], reps, o)
            IN /\ Budget(res)
               /\ Counted(res)
               /\ sent' = Logged(res, line_number, 0)
               /\ clients' = [clients EXCEPT ![19] = res.client]
               /\ IF res.raised # "none"
                  THEN /\ RaisedInLoop(res, current_line, eff_position,
                                       line_number, 0)
                       /\ current_position' = eff_position
                       /\ UNCHANGED <<current_line, line_number, text, ci>>
                  ELSE IF is_delay(line)
                  THEN /\ current_position' = eff_position
                       /\ IF delay(line) \in {"slept", "ValueError", "IndexError"}
                          THEN /\ line_number' = line_number + 1
                               /\ UNCHANGED <<pc, exc, runs>>
                          ELSE /\ exc' = NoExc
                               /\ pc' = "finally"
                               /\ EndRun("swallowed", line_number, 0)
                               /\ UNCHANGED line_number
                       /\ UNCHANGED <<current_line, text, ci>>
                  ELSE IF is_string(line)
                  THEN /\ current_position' = eff_position
                       /\ text' = slice(line, 7)
                       /\ ci' = 0
                       /\ pc' = "string"
                       /\ UNCHANGED <<exc, runs, current_line, line_number>>
                  ELSE /\ current_position' = 0
                       /\ current_line' = current_line + 1
                       /\ line_number' = line_number + 1
                       /\ UNCHANGED <<pc, exc, runs, text, ci>>
    /\ UNCHANGED <<encVars, script, ctlVars, openSocks, nextSock, nextObj, closedObjs,
                   run, last>>

\* for char_position, char in enumerate(text, start=1): one character
StringChar ==
    /\ pc = "string"
    /\ ci < Len(text)
    /\ LET char_position == ci + 1
           c == char_reports(text[ci + 1])
       IN \E o \in OutcomeSeqs(Len(c.reps)) :
            LET res == transmit(clients[19], c.reps, o)
            IN /\ Budget(res)
               /\ Counted(res)
               /\ sent' = Logged(res, line_number, char_position)
               /\ clients' = [clients EXCEPT ![19] = res.client]
               /\ IF res.raised # "none"
                  THEN /\ RaisedInLoop(res, current_line, current_position,
                                       line_number, char_position)
                       /\ UNCHANGED <<current_position, ci>>
                  ELSE /\ current_position' =
                            (IF c.attrerr THEN current_position ELSE char_position)
                       /\ ci' = ci + 1
                       /\ UNCHANGED <<pc, exc, runs>>
    /\ UNCHANGED <<encVars, script, ctlVars, openSocks, nextSock, nextObj, closedObjs,
                   current_line, line_number, text, run, last>>

\* the text is exhausted: lines 399-400
StringEnd ==
    /\ pc = "string"
    /\ ci = Len(text)
    /\ current_position' = 0
    /\ current_line' = current_line + 1
    /\ line_number' = line_number + 1
    /\ pc' = "line"
    /\ UNCHANGED <<encVars, script, ctlVars, mgrVars, text, ci, exc, logVars, last>>

\* the for loop is exhausted: process_duckyscript returns, main sleeps and
\* breaks
ScriptEnd ==
    /\ pc = "line"
    /\ line_number = Len(script)
    /\ pc' = "finally"
    /\ exc' = NoExc
    /\ EndRun("returned", line_number, 0)
    /\ UNCHANGED <<encVars, script, ctlVars, mgrVars, interpVars, sent, run, faults,
                   last>>

(***************************************************************************)
(* L2CAPConnectionManager                                                  *)
(***************************************************************************)
\* create_connection(port) with a client of identity id
create_connection(cl, port, id) ==
    [p \in (DOMAIN cl) \cup {port} |-> IF p = port THEN L2CAPClient(id) ELSE cl[p]]

\* the registered ports in the order of clients.values()
PortOrder(cl) == SelectSeq(Ports, LAMBDA p : p \in DOMAIN cl)

\* connect_all that closes the clients it connected when one fails
connect_all_rollback(cl, n, s) ==
    LET order == PortOrder(cl)
        idx(p) == CHOOSE i \in 1..Len(order) : order[i] = p
    IN [p \in DOMAIN cl |->
          IF n < Len(order) THEN close(cl[p]) ELSE connect(cl[p], s + idx(p))]

\* connect_all() where the first n clients connect, on sockets s+1..s+n, and
\* the next one, if any, fails
connect_all(cl, n, s) ==
    LET order == PortOrder(cl)
        idx(p) == CHOOSE i \in 1..Len(order) : order[i] = p
    IN [p \in DOMAIN cl |->
          IF idx(p) <= n THEN connect(cl[p], s + idx(p))
          ELSE IF idx(p) = n + 1 THEN connectFailed(cl[p])
          ELSE cl[p]]

\* close_all()
close_all(cl) == [p \in DOMAIN cl |-> close(cl[p])]

RECURSIVE closeAllSocks(_, _, _)
closeAllSocks(cl, order, socks) ==
    IF order = <<>> THEN socks
    ELSE closeAllSocks(cl, Tail(order), closeSocks(cl[Head(order)], socks))

(***************************************************************************)
(* main: the connect / execute / reconnect loop                            *)
(***************************************************************************)
\* setup_and_connect: the three create_connection calls
CreateConnections ==
    /\ pc = "loop"
    /\ clients' = create_connection(
                    create_connection(
                      create_connection(clients, 1, nextObj), 17, nextObj + 1),
                    19, nextObj + 2)
    /\ nextObj' = nextObj + 3
    /\ iter' = iter + 1
    /\ pc' = "agent_enter"
    /\ UNCHANGED <<encVars, script, saved_line, saved_position, openSocks, nextSock,
                   closedObjs, agents, removed, interpVars, exc, logVars,
                   last>>

\* initialize_pairing: PairingAgent.__enter__ starts the agent process
AgentEnter ==
    /\ pc = "agent_enter"
    /\ \E started \in BOOLEAN :
         IF started
         THEN /\ agents' = Append(agents, "running")
              /\ pc' = "agent_exit"
              /\ UNCHANGED exc
         ELSE /\ exc' = ConnectionFailureException(0)
              /\ pc' = "finally"
              /\ UNCHANGED agents
    /\ UNCHANGED <<encVars, script, saved_line, saved_position, removed, iter, mgrVars,
                   interpVars, logVars, last>>

\* initialize_pairing: the with block ends, PairingAgent.__exit__ kills the agent
AgentExit ==
    /\ pc = "agent_exit"
    /\ agents' = [agents EXCEPT ![Len(agents)] = "killed"]
    /\ pc' = "connect"
    /\ UNCHANGED <<encVars, script, saved_line, saved_position, removed, iter, mgrVars,
                   interpVars, exc, logVars, last>>

\* establish_connections going on to the script whatever connect_all did
ConnectAll_unchecked ==
    /\ pc = "connect"
    /\ \E n \in 0..Cardinality(DOMAIN clients) :
         /\ clients' = connect_all(clients, n, nextSock - 1)
         /\ openSocks' = openSocks \cup (nextSock..(nextSock + n - 1))
         /\ nextSock' = nextSock + n
         /\ pc' = "preamble"
         /\ UNCHANGED exc
    /\ UNCHANGED <<encVars, script, ctlVars, nextObj, closedObjs, interpVars, logVars,
                   last>>

\* establish_connections: connect_all over the registered clients
ConnectAll ==
    /\ pc = "connect"
    /\ \E n \in 0..Cardinality(DOMAIN clients) :
         /\ clients' = connect_all(clients, n, nextSock - 1)
         /\ openSocks' = openSocks \cup (nextSock..(nextSock + n - 1))
         /\ nextSock' = nextSock + n
         /\ IF n = Cardinality(DOMAIN clients) /\ n # 0
            THEN /\ pc' = "preamble"
                 /\ UNCHANGED exc
            ELSE /\ pc' = "finally"
                 /\ exc' = ConnectionFailureException(
                             IF n < Cardinality(DOMAIN clients)
                             THEN PortOrder(clients)[n + 1] ELSE 0)
    /\ UNCHANGED <<encVars, script, ctlVars, nextObj, closedObjs, interpVars, logVars,
                   last>>

\* process_duckyscript is called with main's cursor: send_keypress('') and the
\* sleep before the try block
Preamble ==
    /\ pc = "preamble"
    /\ run' = run + 1
    /\ LET reps == send_keypress(<<Other("")>>)
       IN \E o \in OutcomeSeqs(Len(reps)) :
            LET res == transmit(clients[19], reps, o)
                call == [line |-> saved_line, pos |-> saved_position,
                         client |-> clients[19].id, end |-> "running",
                         ln |-> 0 - 1, pos_end |-> 0]
            IN /\ Budget(res)
               /\ Counted(res)
               /\ sent' = sent \o [i \in 1..Len(res.wrote) |->
                                     [run |-> run + 1, ln |-> 0 - 1, pos |-> 0,
                                      rep |-> res.wrote[i]]]
               /\ clients' = [clients EXCEPT ![19] = res.client]
               /\ current_line' = saved_line
               /\ current_position' = saved_position
               /\ line_number' = 0
               /\ CASE res.raised = "none" ->
                         /\ pc' = "line"
                         /\ runs' = Append(runs, call)
                         /\ UNCHANGED exc
                    [] res.raised = "ReconnectionRequired" ->
                         /\ pc' = "except"
                         /\ exc' = ReconnectionRequiredException(0, 0)
                         /\ runs' = Append(runs,
                                      [call EXCEPT !.end = "ReconnectionRequired"])
                    [] res.raised = "Exception" ->
                         /\ pc' = "finally"
                         /\ exc' = OtherException
                         /\ runs' = Append(runs, [call EXCEPT !.end = "Exception"])
    /\ UNCHANGED <<encVars, script, ctlVars, openSocks, nextSock, nextObj, closedObjs,
                   text, ci, last>>

\* the handler without the assignments of lines 706-707
HandleReconnect_keeps_cursor ==
    /\ pc = "except"
    /\ clients' = close_all(clients)
    /\ openSocks' = closeAllSocks(clients, PortOrder(clients), openSocks)
    /\ closedObjs' = closedObjs \cup {clients[p].id : p \in DOMAIN clients}
    /\ exc' = Handled
    /\ pc' = "finally"
    /\ UNCHANGED <<encVars, script, saved_line, saved_position, agents, removed, iter,
                   nextSock, nextObj, interpVars, logVars, last>>

\* except ReconnectionRequiredException as e
HandleReconnect ==
    /\ pc = "except"
    /\ saved_line' = exc.line
    /\ saved_position' = exc.pos
    /\ clients' = close_all(clients)
    /\ openSocks' = closeAllSocks(clients, PortOrder(clients), openSocks)
    /\ closedObjs' = closedObjs \cup {clients[p].id : p \in DOMAIN clients}
    /\ exc' = Handled
    /\ pc' = "finally"
    /\ UNCHANGED <<encVars, script, agents, removed, iter, nextSock, nextObj,
                   interpVars, logVars, last>>

\* a loop that also catches ConnectionFailureException and retries
RemoveDevice_retrying ==
    /\ pc = "finally"
    /\ removed' = removed + 1
    /\ pc' = CASE exc.type \in {"handled", "ConnectionFailure"} -> "loop"
               [] exc.type = "none" -> "done"
               [] OTHER -> "aborted"
    /\ UNCHANGED <<encVars, script, saved_line, saved_position, agents, iter,
                   mgrVars, interpVars, exc, logVars, last>>

\* the remove command issued after the try statement instead of in finally
RemoveDevice_after_try ==
    /\ pc = "finally"
    /\ removed' = removed + (IF exc.type \in {"handled", "none"} THEN 1 ELSE 0)
    /\ pc' = CASE exc.type = "handled" -> "loop"
               [] exc.type = "none" -> "done"
               [] OTHER -> "aborted"
    /\ UNCHANGED <<encVars, script, saved_line, saved_position, agents, iter,
                   mgrVars, interpVars, exc, logVars, last>>

\* finally: the remove command; then the loop goes on, is left by break, or is
\* left by the exception nothing caught
RemoveDevice ==
    /\ pc = "finally"
    /\ removed' = removed + 1
    /\ pc' = CASE exc.type = "handled" -> "loop"
               [] exc.type = "none" -> "done"
               [] OTHER -> "aborted"
    /\ UNCHANGED <<encVars, script, saved_line, saved_position, agents, iter,
                   mgrVars, interpVars, exc, logVars, last>>

NoClients == [p \in {} |-> L2CAPClient(0)]
NoCall == [op |-> "none", port |-> 0, pre |-> L2CAPClient(0), raised |-> "none",
           wrote |-> FALSE, tries |-> 0, outcome |-> "none", socks |-> {},
           next |-> 1]

Init ==
    /\ script \in Scripts
    /\ pc = "loop"
    /\ saved_line = 0
    /\ saved_position = 0
    /\ clients = NoClients
    /\ openSocks = {}
    /\ nextSock = 1
    /\ nextObj = 1
    /\ closedObjs = {}
    /\ agents = <<>>
    /\ removed = 0
    /\ iter = 0
    /\ current_line = 0
    /\ current_position = 0
    /\ line_number = 0
    /\ text = <<>>
    /\ ci = 0
    /\ exc = NoExc
    /\ sent = <<>>
    /\ run = 0
    /\ runs = <<>>
    /\ faults = 0
    /\ last = NoCall
    /\ enc_args = <<>>
    /\ enc_report = <<>>

Next ==
    \/ CreateConnections
    \/ AgentEnter
    \/ AgentExit
    \/ ConnectAll
    \/ Preamble
    \/ SkipLine
    \/ NoOpLine
    \/ CommandLine
    \/ StringChar
    \/ StringEnd
    \/ ScriptEnd
    \/ HandleReconnect
    \/ RemoveDevice

Spec == Init /\ [][Next]_vars

(***************************************************************************)
(* The client API called in any order: three registered clients and the    *)
(* calls connect, send, recv, close, connect_all and close_all             *)
(***************************************************************************)
Call(op, port, raised, wrote, outcome) ==
    [op |-> op, port |-> port, pre |-> clients[port], raised |-> raised,
     wrote |-> wrote, tries |-> 0, outcome |-> outcome, socks |-> openSocks,
     next |-> nextSock]

ApiConnect ==
    /\ pc = "api"
    /\ \E p \in DOMAIN clients, ok \in BOOLEAN :
         IF ok
         THEN /\ nextSock <= MaxSocks
              /\ clients' = [clients EXCEPT ![p] = connect(clients[p], nextSock)]
              /\ openSocks' = openSocks \cup {nextSock}
              /\ nextSock' = nextSock + 1
              /\ last' = Call("connect", p, "none", FALSE, "ok")
         ELSE /\ clients' = [clients EXCEPT ![p] = connectFailed(clients[p])]
              /\ last' = Call("connect", p, "ConnectionFailure", FALSE, "refused")
              /\ UNCHANGED <<openSocks, nextSock>>
    /\ UNCHANGED <<encVars, script, pc, ctlVars, nextObj, closedObjs, interpVars, exc,
                   logVars>>

ApiSend ==
    /\ pc = "api"
    /\ \E p \in DOMAIN clients, o \in SockOutcomes :
         LET r == send(clients[p], encode_keyboard_input(<<>>), o)
         IN /\ clients' = [clients EXCEPT ![p] = r.client]
            /\ last' = [Call("send", p, r.raised, r.wrote, o)
                          EXCEPT !.tries = r.tries]
    /\ UNCHANGED <<encVars, script, pc, ctlVars, openSocks, nextSock, nextObj, closedObjs,
                   interpVars, exc, logVars>>

ApiRecv ==
    /\ pc = "api"
    /\ \E p \in DOMAIN clients, o \in RecvOutcomes :
         LET r == recv(clients[p], o)
         IN /\ clients' = [clients EXCEPT ![p] = r.client]
            /\ last' = Call("recv", p, r.raised, FALSE, o)
    /\ UNCHANGED <<encVars, script, pc, ctlVars, openSocks, nextSock, nextObj, closedObjs,
                   interpVars, exc, logVars>>

ApiClose ==
    /\ pc = "api"
    /\ \E p \in DOMAIN clients :
         /\ clients' = [clients EXCEPT ![p] = close(clients[p])]
         /\ openSocks' = closeSocks(clients[p], openSocks)
         /\ last' = Call("close", p, "none", FALSE, "none")
    /\ UNCHANGED <<encVars, script, pc, ctlVars, nextSock, nextObj, closedObjs,
                   interpVars, exc, logVars>>

ApiConnectAll ==
    /\ pc = "api"
    /\ \E n \in 0..Cardinality(DOMAIN clients) :
         /\ nextSock + n - 1 <= MaxSocks
         /\ clients' = connect_all(clients, n, nextSock - 1)
         /\ openSocks' = openSocks \cup (nextSock..(nextSock + n - 1))
         /\ nextSock' = nextSock + n
         /\ last' = Call("connect_all", 1,
                         IF n = Cardinality(DOMAIN clients) THEN "none"
                         ELSE "ConnectionFailure",
                         FALSE,
                         IF n = Cardinality(DOMAIN clients) THEN "ok"
                         ELSE "refused")
    /\ UNCHANGED <<encVars, script, pc, ctlVars, nextObj, closedObjs, interpVars, exc,
                   logVars>>

ApiCloseAll ==
    /\ pc = "api"
    /\ clients' = close_all(clients)
    /\ openSocks' = closeAllSocks(clients, PortOrder(clients), openSocks)
    /\ last' = Call("close_all", 1, "none", FALSE, "none")
    /\ UNCHANGED <<encVars, script, pc, ctlVars, nextSock, nextObj, closedObjs,
                   interpVars, exc, logVars>>

ClientInit ==
    /\ script = <<L_TAB>>
    /\ pc = "api"
    /\ saved_line = 0
    /\ saved_position = 0
    /\ clients = create_connection(
                   create_connection(
                     create_connection(NoClients, 1, 1), 17, 2), 19, 3)
    /\ openSocks = {}
    /\ nextSock = 1
    /\ nextObj = 4
    /\ closedObjs = {}
    /\ agents = <<>>
    /\ removed = 0
    /\ iter = 0
    /\ current_line = 0
    /\ current_position = 0
    /\ line_number = 0
    /\ text = <<>>
    /\ ci = 0
    /\ exc = NoExc
    /\ sent = <<>>
    /\ run = 0
    /\ runs = <<>>
    /\ faults = 0
    /\ last = NoCall
    /\ enc_args = <<>>
    /\ enc_report = <<>>

ClientNext ==
    \/ ApiConnect
    \/ ApiSend
    \/ ApiRecv
    \/ ApiClose
    \/ ApiConnectAll
    \/ ApiCloseAll

ClientSpec == ClientInit /\ [][ClientNext]_vars

(***************************************************************************)
(* process_duckyscript run on one line over connected channels: every line *)
(* made of up to MaxTokens words of the command vocabulary                 *)
(***************************************************************************)
Words ==
    {S_REM, S_TAB, S_PRIVATE_BROWSER, S_VOLUME_UP, S_DELAY, S_STRING, S_ENTER,
     <<"S", "H", "I", "F", "T">>, <<"C", "T", "R", "L">>,
     <<"R", "I", "G", "H", "T", "A", "L", "T">>, <<"a">>, <<"5">>}

\* words follow each other with or without a blank
Separators == {<<" ">>, <<>>}

RECURSIVE LinesOf(_)
LinesOf(n) ==
    IF n <= 1 THEN Words
    ELSE LET shorter == LinesOf(n - 1)
         IN shorter \cup {l \o sep \o w :
                            l \in shorter, sep \in Separators, w \in Words}

WordLines == LinesOf(MaxTokens)

\* main has connected the three channels of its first iteration and calls
\* process_duckyscript; the channel answers no write with an error that
\* asks for a reconnect
LineInit ==
    /\ \E line \in WordLines : script = <<line>>
    /\ pc = "preamble"
    /\ saved_line = 0
    /\ saved_position = 0
    /\ clients = connect_all(
                   create_connection(
                     create_connection(
                       create_connection(NoClients, 1, 1), 17, 2), 19, 3),
                   3, 0)
    /\ openSocks = {1, 2, 3}
    /\ nextSock = 4
    /\ nextObj = 4
    /\ closedObjs = {}
    /\ agents = <<"killed">>
    /\ removed = 0
    /\ iter = 1
    /\ current_line = 0
    /\ current_position = 0
    /\ line_number = 0
    /\ text = <<>>
    /\ ci = 0
    /\ exc = NoExc
    /\ sent = <<>>
    /\ run = 0
    /\ runs = <<>>
    /\ faults = MaxFaults
    /\ last = NoCall
    /\ enc_args = <<>>
    /\ enc_report = <<>>

LineNext ==
    \/ Preamble
    \/ NoOpLine
    \/ CommandLine
    \/ StringChar
    \/ StringEnd
    \/ ScriptEnd
    \/ RemoveDevice

LineSpec == LineInit /\ [][LineNext]_vars

(***************************************************************************)
(* The encoder called on its own: every argument list of up to MaxArgs     *)
(* keys and modifiers                                                      *)
(***************************************************************************)
EncArgs == {Key("a"), Key("b"), Mod("SHIFT"), Mod("CTRL")}
ArgLists == UNION {[1..n -> EncArgs] : n \in 0..MaxArgs}

EncodeCall ==
    /\ pc = "encode"
    /\ enc_report' = encode_keyboard_input(enc_args)
    /\ pc' = "encoded"
    /\ UNCHANGED <<script, enc_args, ctlVars, mgrVars, interpVars, exc, logVars,
                   last>>

EncodeInit ==
    /\ enc_args \in ArgLists
    /\ enc_report = <<>>
    /\ pc = "encode"
    /\ script = <<>>
    /\ saved_line = 0
    /\ saved_position = 0
    /\ clients = NoClients
    /\ openSocks = {}
    /\ nextSock = 1
    /\ nextObj = 1
    /\ closedObjs = {}
    /\ agents = <<>>
    /\ removed = 0
    /\ iter = 0
    /\ current_line = 0
    /\ current_position = 0
    /\ line_number = 0
    /\ text = <<>>
    /\ ci = 0
    /\ exc = NoExc
    /\ sent = <<>>
    /\ run = 0
    /\ runs = <<>>
    /\ faults = 0
    /\ last = NoCall

EncodeNext == EncodeCall

EncodeSpec == EncodeInit /\ [][EncodeNext]_vars

(***************************************************************************)
(* Properties                                                              *)
(***************************************************************************)
LexLeq(a, b) == a[1] < b[1] \/ (a[1] = b[1] /\ a[2] <= b[2])

\* the text of the STRING line at index L of the script
TextOf(L) == slice(strip(script[L + 1]), 7)

\* the reports of the characters of txt after the first k
RECURSIVE RestReports(_, _)
RestReports(txt, k) ==
    IF k >= Len(txt) THEN <<>>
    ELSE char_reports(txt[k + 1]).reps \o RestReports(txt, k + 1)

\* the reports run r wrote for the line at index L
ReportsOf(r, L) ==
    LET mine == SelectSeq(sent, LAMBDA e : e.run = r /\ e.ln = L)
    IN [i \in 1..Len(mine) |-> mine[i].rep]

\* C1: a run resumed with the cursor (L, k), k > 0, propagated after a
\* transport failure at character k of STRING line L, and finished without a
\* further fault, has sent for line L the reports of the characters from
\* character k on, and nothing else.
C1_ResumeSendsRest ==
    \A r \in 2..Len(runs) :
        (/\ r = Len(runs)
         /\ faults = r - 1
         /\ runs[r].end = "returned"
         /\ runs[r].pos > 0
         /\ runs[r - 1].end = "ReconnectionRequired"
         /\ runs[r - 1].ln = runs[r].line
         /\ runs[r - 1].pos_end = runs[r].pos + 1
         /\ is_string(strip(script[runs[r].line + 1])))
        => ReportsOf(r, runs[r].line)
             = RestReports(TextOf(runs[r].line), runs[r].pos)

\* C2: when the first run fails while sending the character after the first k
\* characters of the STRING line at index L, and nothing else went wrong, the
\* exception that reaches main carries current_line = L, current_position = k.
C2_CursorOfFailure ==
    (/\ pc = "except"
     /\ run = 1
     /\ faults = 1
     /\ runs[1].pos_end > 0)
    => (exc.line = runs[1].ln /\ exc.pos = runs[1].pos_end - 1)

\* C3: when reports of one script line were written in two runs, that line is
\* the line the earlier run was interrupted in: no line completed before a
\* failure is executed again.
C3_NoLineExecutedTwice ==
    \A i, j \in DOMAIN sent :
        (/\ sent[i].ln >= 0
         /\ sent[i].ln = sent[j].ln
         /\ sent[i].run < sent[j].run)
        => runs[sent[i].run].ln = sent[i].ln

\* C5: a ReconnectionRequired that reaches main carries the interpreter's
\* cursor at the moment of the failure, and that cursor is not
\* lexicographically smaller than the cursor main saved before.
C5_CursorNeverMovesBack ==
    pc = "except"
    => (/\ exc.type = "ReconnectionRequired"
        /\ exc.line = current_line
        /\ exc.pos = current_position
        /\ LexLeq(<<saved_line, saved_position>>, <<exc.line, exc.pos>>))

\* C9: when the first run, started at (0, 0), has returned and no fault was
\* injected, the interpreter's cursor is (N, 0), N the number of script lines.
C9_FinalCursor ==
    (/\ pc = "finally"
     /\ run = 1
     /\ faults = 0
     /\ runs[1].end = "returned")
    => (current_line = Len(script) /\ current_position = 0)

\* a send on a connected client whose write failed with a transport error
\* other than would-block
SendHitTransportError ==
    last.op = "send" /\ last.pre.connected /\ last.outcome = "bterr"

\* C4 as claimed: after a send on a connected client hit a transport error
\* other than would-block, ReconnectionRequired was raised and the client is
\* unconnected.
C4_ClientInvalidated ==
    SendHitTransportError
    => (last.raised = "ReconnectionRequired" /\ ~clients[last.port].connected)

\* C4: after a send on a connected client hit a transport error other than
\* would-block, ReconnectionRequired was raised, nothing was written, and the
\* client is as it was: still connected, on the same socket, which is open.
C4_ClientLeftConnected ==
    SendHitTransportError
    => (/\ last.raised = "ReconnectionRequired"
        /\ ~last.wrote
        /\ clients[last.port] = last.pre
        /\ clients[last.port].connected
        /\ openSocks = last.socks
        /\ (last.pre.sock \in last.socks => clients[last.port].sock \in openSocks))

C4_Witness ==
    SendHitTransportError /\ clients[last.port].sock \in openSocks

\* the index of port p in the order connect_all visits the clients
OrderIndex(p) ==
    CHOOSE i \in 1..Len(PortOrder(clients)) : PortOrder(clients)[i] = p

\* connect_all raised ConnectionFailure because the connect on exc.port failed
ConnectAllFailed ==
    pc \in {"finally", "aborted"} /\ exc.type = "ConnectionFailure" /\ exc.port # 0

\* C6 as claimed: after a connect_all that raised ConnectionFailure no
\* registered client is connected or holds an open socket.
C6_NoPartialState ==
    ConnectAllFailed
    => \A p \in DOMAIN clients :
         ~clients[p].connected /\ clients[p].sock \notin openSocks

\* C6: connect_all connects the clients in registration order and stops at the
\* first failure; once it has returned every client is connected on an open
\* socket; once it has raised ConnectionFailure the clients before the failing
\* one are still connected on open sockets, and the failing client and the
\* clients after it are unconnected without a socket.
C6_PartialStateRetained ==
    /\ pc = "preamble"
       => \A p \in DOMAIN clients :
            clients[p].connected /\ clients[p].sock \in openSocks
    /\ ConnectAllFailed
       => \A p \in DOMAIN clients :
            IF OrderIndex(p) < OrderIndex(exc.port)
            THEN clients[p].connected /\ clients[p].sock \in openSocks
            ELSE ~clients[p].connected /\ clients[p].sock = 0

C6_Witness ==
    /\ ConnectAllFailed
    /\ exc.port = 19
    /\ clients[1].connected
    /\ clients[17].connected
    /\ ~clients[19].connected

\* C7: the handler of ReconnectionRequired saves the cursor the exception
\* carries and leaves every client closed; the saved cursor changes nowhere
\* else; the next iteration registers three clients for ports 1, 17 and 19
\* that are new objects; and process_duckyscript is always called with the
\* saved cursor on the registered port-19 client, which is connected and has
\* never been closed, as it is while the interpreter runs.
C7_ReconnectRestartsFromSavedCursor ==
    /\ [][/\ pc = "except"
             => (/\ saved_line' = exc.line
                 /\ saved_position' = exc.pos
                 /\ \A p \in DOMAIN clients' :
                      ~clients'[p].connected /\ clients'[p].sock = 0
                 /\ openSocks' = {}
                 /\ pc' = "finally")
          /\ pc # "except"
             => (saved_line' = saved_line /\ saved_position' = saved_position)
          /\ (pc = "finally" /\ exc.type = "handled") => pc' = "loop"
          /\ pc = "loop"
             => (/\ DOMAIN clients' = {1, 17, 19}
                 /\ \A p \in DOMAIN clients' :
                      /\ clients'[p].id \notin closedObjs
                      /\ \A q \in DOMAIN clients : clients'[p].id # clients[q].id
                      /\ ~clients'[p].connected)
          /\ run' = run + 1
             => (/\ current_line' = saved_line
                 /\ current_position' = saved_position
                 /\ clients[19].connected
                 /\ clients[19].sock \in openSocks
                 /\ clients[19].id \notin closedObjs)]_vars
    /\ [](pc \in {"line", "string"}
          => (/\ clients[19].connected
              /\ clients[19].sock \in openSocks
              /\ clients[19].id \notin closedObjs
              /\ runs[run].client = clients[19].id
              /\ runs[run].line = saved_line
              /\ runs[run].pos = saved_position))

C7_Witness ==
    /\ run = 2
    /\ pc = "string"
    /\ runs[1].end = "ReconnectionRequired"
    /\ saved_line = 1
    /\ closedObjs = {1, 2, 3}
    /\ clients[19].id = 6

\* C8 as claimed: while no connect has ever succeeded, a failed connect does
\* not make the session controller leave its loop.
C8_LoopsWhileUnreachable ==
    (nextSock = 1 /\ exc.type = "ConnectionFailure" /\ exc.port # 0)
    => pc # "aborted"

\* C8: the loop has no retry ceiling for ReconnectionRequired, whatever the
\* number of iterations: a handled ReconnectionRequired always leads to the
\* next iteration. A ConnectionFailure is not caught: after the remove command
\* the loop is left, so with a target on which no connect ever succeeds the
\* loop body is entered once.
C8_ConnectFailureLeavesLoop ==
    /\ [][/\ (pc = "finally" /\ exc.type = "handled") => pc' = "loop"
          /\ (pc = "finally" /\ exc.type = "ConnectionFailure") => pc' = "aborted"
          /\ pc = "aborted" => pc' = "aborted"]_vars
    /\ [](exc.type = "ConnectionFailure" => pc \in {"finally", "aborted"})
    /\ [](nextSock = 1 => iter <= 1)

C8_Witness ==
    /\ pc = "aborted"
    /\ exc = ConnectionFailureException(1)
    /\ nextSock = 1
    /\ iter = 1
    /\ removed = 1

\* C10: after a send on a client that was not connected, ReconnectionRequired
\* was raised, nothing was written, no socket was opened, and the client's
\* connected flag and socket are as they were.
C10_SendUnconnectedRaises ==
    (last.op = "send" /\ ~last.pre.connected)
    => (/\ last.raised = "ReconnectionRequired"
        /\ ~last.wrote
        /\ clients[last.port] = last.pre
        /\ openSocks = last.socks
        /\ nextSock = last.next)

C10_Witness ==
    /\ last.op = "send"
    /\ ~last.pre.connected
    /\ last.outcome = "ok"
    /\ last.pre.sock # 0
    /\ last.raised = "ReconnectionRequired"


\* the control thread is between two iterations or has left the loop
BetweenIterations == pc \in {"loop", "done", "aborted"}

\* C11: every iteration of main's loop ends with one remove command, however
\* it ends: outside an iteration as many commands were issued as iterations
\* were entered, inside one exactly one is missing; the command is issued as
\* the last step of the iteration; after a handled ReconnectionRequired it is
\* issued when close_all has closed every client, and the next iteration
\* registers its clients only after it.
C11_RemoveEndsEveryIteration ==
    /\ [](BetweenIterations => removed = iter)
    /\ [](~BetweenIterations => removed + 1 = iter)
    /\ [][/\ pc = "finally" => (removed' = removed + 1 /\ BetweenIterations')
          /\ removed' # removed => pc = "finally"
          /\ (removed' # removed /\ exc.type = "handled")
             => (/\ openSocks = {}
                 /\ \A p \in DOMAIN clients :
                      ~clients[p].connected /\ clients[p].sock = 0
                 /\ pc' = "loop")
          /\ iter' # iter => removed = iter]_vars

C11_Witness ==
    /\ pc = "aborted"
    /\ exc.type = "ConnectionFailure"
    /\ iter = 2
    /\ removed = 2
    /\ runs[1].end = "ReconnectionRequired"


\* the prefixes the loop body tests a line for
CommandPrefixes ==
    {S_REM, S_TAB, S_PRIVATE_BROWSER, S_VOLUME_UP, S_DELAY, S_STRING, S_ENTER}
    \cup ModifierWords

\* the loop body is about to execute a line that begins with none of them
AtUnknownLine ==
    /\ pc = "line"
    /\ line_number < Len(script)
    /\ line_number >= current_line
    /\ eff_line # <<>>
    /\ \A p \in CommandPrefixes : ~startswith(eff_line, p)

\* C12: executing a line that begins with no recognized prefix sends no
\* report and raises nothing, the loop goes on with the next line, and the
\* cursor is past the unknown line: (line_number + 1, 0).
C12_UnknownLineSkipped ==
    [][AtUnknownLine =>
         /\ sent' = sent
         /\ exc' = exc
         /\ pc' = "line"
         /\ line_number' = line_number + 1
         /\ current_line' = line_number + 1
         /\ current_position' = 0]_vars


\* the loop body is about to execute a line whose first token is one of the
\* modifier keywords
AtModifierLine ==
    /\ pc = "line"
    /\ line_number < Len(script)
    /\ line_number >= current_line
    /\ split(eff_line) # <<>>
    /\ split(eff_line)[1] \in ModifierWords

\* the log entry of a report of the line being executed
LineEntry(rep) == [run |-> run, ln |-> line_number, pos |-> 0, rep |-> rep]

\* C13: a two-token line of a modifier keyword and the name of a key of
\* Key_Codes sends, when the channel takes every report, exactly one press
\* report with the modifier's bit and the key's code and one release report;
\* a modifier line that has not two tokens sends nothing.
C13_ModifierChord ==
    [][(AtModifierLine /\ faults' = faults /\ pc' = "line") =>
         LET components == split(eff_line)
         IN /\ (Len(components) = 2 /\ join(components[2]) \in DOMAIN Key_Codes)
               => sent' = sent \o
                    << LineEntry(<<161, 1, Modifier_Codes[join(components[1])], 0,
                                   Key_Codes[join(components[2])],
                                   0, 0, 0, 0, 0, 0>>),
                       LineEntry(<<161, 1, 0, 0, 0, 0, 0, 0, 0, 0, 0>>) >>
            /\ Len(components) # 2 => sent' = sent]_vars


\* the loop body is about to execute a DELAY line whose argument is missing
\* or has a character that is no part of a number
AtMalformedDelay ==
    /\ pc = "line"
    /\ line_number < Len(script)
    /\ line_number >= current_line
    /\ startswith(eff_line, S_DELAY)
    /\ LET parts == split(eff_line)
       IN \/ Len(parts) < 2
          \/ \E i \in 1..Len(parts[2]) :
               parts[2][i] \notin Digits \cup {"+", "-", "_"}

\* C14: executing a DELAY line with a missing or non-numeric argument sends
\* no report, raises nothing and ends no run: the loop goes on with the next
\* line.
C14_MalformedDelaySkipped ==
    [][AtMalformedDelay =>
         /\ sent' = sent
         /\ exc' = exc
         /\ runs' = runs
         /\ pc' = "line"
         /\ line_number' = line_number + 1]_vars

C14_Witness ==
    /\ script = <<L_DELAY_NOARG, L_DELAY_x, L_TAB>>
    /\ pc = "done"
    /\ Len(runs) = 1
    /\ runs[1].end = "returned"
    /\ \E i \in 1..Len(sent) :
         sent[i].ln = 2 /\ sent[i].rep = encode_keyboard_input(<<Key("TAB")>>)


\* the key and the modifier arguments of the call, in argument order
KeyArgs == SelectSeq(enc_args, LAMBDA a : a.t = "key")
ModArgs == SelectSeq(enc_args, LAMBDA a : a.t = "mod")

\* bit b (a power of two) of the byte v
Bit(v, b) == (v \div b) % 2 = 1

\* C15: what encode_keyboard_input returns is a function of its arguments
\* alone: the bytes 0xA1 and 0x01, the modifier byte whose bits are exactly
\* the bits some modifier argument has, 0x00, then the keycodes in argument
\* order and zeros after them; with no key argument every keycode slot is
\* zero.
C15_ReportLayout ==
    (pc = "encoded" /\ Len(KeyArgs) <= 7) =>
        /\ enc_report[1] = 161
        /\ enc_report[2] = 1
        /\ \A b \in {1, 2, 4, 8, 16, 32, 64, 128} :
             Bit(enc_report[3], b) <=>
               \E i \in 1..Len(ModArgs) : Bit(ModArgs[i].v, b)
        /\ enc_report[4] = 0
        /\ \A i \in 1..Len(KeyArgs) : enc_report[4 + i] = KeyArgs[i].v
        /\ \A i \in (5 + Len(KeyArgs))..Len(enc_report) : enc_report[i] = 0
        /\ Len(KeyArgs) = 0 => \A i \in 5..Len(enc_report) : enc_report[i] = 0

C15_Witness ==
    /\ pc = "encoded"
    /\ enc_args = <<Mod("SHIFT"), Key("b"), Mod("CTRL"), Key("a"), Mod("SHIFT")>>
    /\ enc_report = <<161, 1, 3, 0, 5, 4, 0, 0, 0, 0, 0>>

\* C16: encode_keyboard_input raises AssertionError whenever more than seven
\* of its arguments are keys, whatever the modifiers; with seven keys or
\* fewer it returns a report, and with exactly seven the keycodes fill the
\* slots after the fourth byte with no padding.
C16_SevenKeyLimit ==
    pc = "encoded" =>
        /\ Len(KeyArgs) >= 8 <=> enc_report = <<"AssertionError">>
        /\ Len(KeyArgs) = 7 =>
             enc_report = <<161, 1, enc_report[3], 0>>
                            \o [i \in 1..7 |-> KeyArgs[i].v]

C16_Witness ==
    /\ pc = "encoded"
    /\ Len(KeyArgs) = 7
    /\ Len(ModArgs) = 1
    /\ Len(enc_report) = 11


\* the three reports the VOLUME_UP branch writes out as hexadecimal text
VolumeUpRaw ==
    {<<161, 1, 8, 0, 25, 0, 0, 0, 0, 0>>,
     <<161, 1, 8, 0, 25, 87, 0, 0, 0, 0>>,
     <<161, 1, 0, 0, 0, 0, 0, 0, 0, 0>>}

\* the lengths of the reports a run sent for a line
LengthsOf(r, L) ==
    LET es == SelectSeq(sent, LAMBDA e : e.run = r /\ e.ln = L)
    IN [i \in 1..Len(es) |-> Len(es[i].rep)]

\* C17 as claimed: every report handed to the client has one and the same
\* length, nine bytes.
C17_NineByteReports ==
    \A i \in 1..Len(sent) : Len(sent[i].rep) = 9

\* C17: every report handed to the client is 11 bytes long (the encoder's
\* reports and the raw PRIVATE_BROWSER reports), except the three raw reports
\* of VOLUME_UP, which are 10 bytes long: a VOLUME_UP line executed on a
\* sound channel sends reports of 10, 11, 11, 10 and 10 bytes.
C17_ReportLengths ==
    /\ \A i \in 1..Len(sent) :
         \/ Len(sent[i].rep) = 11
         \/ /\ Len(sent[i].rep) = 10
            /\ sent[i].rep \in VolumeUpRaw
            /\ sent[i].ln >= 0
            /\ startswith(script[sent[i].ln + 1], S_VOLUME_UP)
    /\ (pc = "done" /\ Len(runs) = 1 /\ runs[1].end = "returned" /\ faults = 0)
         => \A L \in 0..(Len(script) - 1) :
              /\ script[L + 1] = L_VOLUME_UP
                   => LengthsOf(1, L) = <<10, 11, 11, 10, 10>>
              /\ script[L + 1] = L_PRIVATE_BROWSER
                   => LengthsOf(1, L) = <<11, 11>>

C17_Witness ==
    /\ pc = "done"
    /\ faults = 0
    /\ Len(runs) = 1
    /\ runs[1].end = "returned"
    /\ \E i, j \in 1..Len(sent) :
         /\ sent[i].ln = sent[j].ln
         /\ Len(sent[i].rep) = 10
         /\ Len(sent[j].rep) = 11


\* a character no branch of the STRING loop has a key for
Unmapped(ch) ==
    /\ ch \notin Digits
    /\ ch \notin DOMAIN PlainChars
    /\ ~isalpha(ch)
    /\ char_to_key_code(ch) = ""

\* the STRING loop is about to take a character it has no key for
AtUnmappedChar ==
    /\ pc = "string"
    /\ ci < Len(text)
    /\ Unmapped(text[ci + 1])

\* the loop body is about to execute a two-token modifier line whose modifier
\* or key token the lookups of lines 388-389 do not find
AtUnrecognizedChord ==
    /\ pc = "line"
    /\ line_number < Len(script)
    /\ line_number >= current_line
    /\ is_modifier(eff_line)
    /\ \A p \in {S_REM, S_TAB, S_PRIVATE_BROWSER, S_VOLUME_UP, S_DELAY, S_STRING} :
         ~startswith(eff_line, p)
    /\ LET components == split(eff_line)
       IN /\ Len(components) = 2
          /\ \/ upperstr(components[1]) \notin DOMAIN Modifier_Codes
             \/ lowerstr(components[2]) \notin DOMAIN Key_Codes

\* the press report of a single key
PressOf(name) == <<161, 1, 0, 0, Key_Codes[name], 0, 0, 0, 0, 0, 0>>

\* C18: unsupported input is never escalated.  A STRING character without a
\* key, a modifier line with an unrecognized token and a malformed DELAY line
\* each send no report, raise nothing and end no run; the STRING loop goes on
\* with the next character and the script loop with the next line, so a run
\* that returns on a sound channel has pressed every lower-case letter of
\* every STRING text, those after an unsupported character too.
C18_UnsupportedInputSkipped ==
    /\ [][AtUnmappedChar =>
            /\ sent' = sent
            /\ exc' = exc
            /\ runs' = runs
            /\ pc' = "string"
            /\ ci' = ci + 1]_vars
    /\ [][(AtUnrecognizedChord \/ AtMalformedDelay) =>
            /\ sent' = sent
            /\ exc' = exc
            /\ runs' = runs
            /\ pc' = "line"
            /\ line_number' = line_number + 1]_vars
    /\ []((pc = "done" /\ Len(runs) = 1 /\ runs[1].end = "returned" /\ faults = 0)
            => \A L \in 0..(Len(script) - 1) :
                 is_string(script[L + 1]) =>
                   \A k \in 1..Len(TextOf(L)) :
                     islower(TextOf(L)[k]) =>
                       \E i \in 1..Len(sent) :
                         /\ sent[i].ln = L
                         /\ sent[i].pos = k
                         /\ sent[i].rep = PressOf(TextOf(L)[k]))

C18_Witness ==
    /\ script = <<L_STRING_UNSUPPORTED>>
    /\ pc = "done"
    /\ faults = 0
    /\ runs[1].end = "returned"
    /\ ReportsOf(1, 0) = <<PressOf("a"), PressOf("NONE"),
                           PressOf("b"), PressOf("NONE")>>


\* the loop body is about to execute a DELAY line whose number is beyond what
\* time.sleep takes
AtOverflowingDelay ==
    /\ pc = "line"
    /\ line_number < Len(script)
    /\ line_number >= current_line
    /\ eff_line = L_DELAY_HUGE

\* C19: an exception other than ReconnectionRequired raised while a script
\* line is executed never leaves process_duckyscript: only the preamble,
\* outside the try statement, ends a run with an exception.  The run it ends
\* returns normally with the later lines not executed and the cursor of main
\* as it was; it is the last run: main issues the remove command and leaves
\* the loop as after a completed script, with no reconnect.
C19_OtherExceptionsSwallowed ==
    /\ [](\A r \in 1..Len(runs) :
            /\ runs[r].end = "Exception" => runs[r].ln = 0 - 1
            /\ runs[r].end = "swallowed" =>
                 /\ r = Len(runs)
                 /\ pc \in {"finally", "done"}
                 /\ exc = NoExc
                 /\ \A i \in 1..Len(sent) :
                      sent[i].run = r => sent[i].ln <= runs[r].ln)
    /\ [][AtOverflowingDelay =>
            /\ runs'[run].end = "swallowed"
            /\ sent' = sent]_vars
    /\ [][(run > 0 /\ runs[run].end = "running" /\ runs'[run].end = "swallowed")
            => /\ pc' = "finally"
               /\ exc' = NoExc
               /\ saved_line' = saved_line
               /\ saved_position' = saved_position]_vars
    /\ [][(pc = "finally" /\ run > 0 /\ runs[run].end = "swallowed")
            => (pc' = "done" /\ removed' = removed + 1 /\ iter' = iter)]_vars

C19_Witness ==
    /\ script = <<L_TAB, L_ENTER>>
    /\ pc = "done"
    /\ Len(runs) = 1
    /\ runs[1].end = "swallowed"
    /\ runs[1].ln = 0
    /\ ReportsOf(1, 0) = <<PressOf("TAB")>>
    /\ ReportsOf(1, 1) = <<>>


\* C20: close leaves the client unconnected with no socket from whatever
\* state it is called in; a second close changes nothing; and the socket the
\* client held when close was called is closed when close returns.
C20_CloseReleasesSocket ==
    last.op = "close" =>
        /\ ~clients[last.port].connected
        /\ clients[last.port].sock = 0
        /\ (~last.pre.connected /\ last.pre.sock = 0)
             => (clients[last.port] = last.pre /\ openSocks = last.socks)
        /\ last.pre.sock # 0 => last.pre.sock \notin openSocks


\* the three ports setup_and_connect registers
Channels == {1, 17, 19}

\* every channel is registered and connected on an open socket
AllChannelsConnected ==
    \A p \in Channels :
      /\ p \in DOMAIN clients
      /\ clients[p].connected
      /\ clients[p].sock \in openSocks

\* C21: the steps of an iteration come in one order.  An iteration begins by
\* registering new, unconnected clients for ports 1, 17 and 19 when the
\* iteration before is over; the pairing agent of the iteration is started
\* next, with these clients still unconnected; a socket is connected only
\* when the agent of the iteration has been started; process_duckyscript is
\* called only with all three channels connected, on the port-19 client and
\* with main's saved cursor; and no report is sent unless all three channels
\* are connected.
C21_IterationOrder ==
    [][/\ iter' # iter =>
            /\ Len(agents) = iter
            /\ run = iter
            /\ DOMAIN clients' = Channels
            /\ \A p \in Channels :
                 /\ ~clients'[p].connected
                 /\ clients'[p].sock = 0
                 /\ clients'[p].id >= nextObj
       /\ Len(agents') # Len(agents) =>
            /\ Len(agents') = iter
            /\ run = iter - 1
            /\ clients' = clients
            /\ \A p \in Channels :
                 /\ p \in DOMAIN clients
                 /\ ~clients[p].connected
                 /\ clients[p].id >= nextObj - 3
       /\ ~(openSocks' \subseteq openSocks) =>
            /\ Len(agents) = iter
            /\ run = iter - 1
       /\ run' # run =>
            /\ Len(agents) = iter
            /\ run' = iter
            /\ AllChannelsConnected
            /\ current_line' = saved_line
            /\ current_position' = saved_position
            /\ (run' \in 1..Len(runs')) =>
                 /\ runs'[run'].client = clients[19].id
                 /\ runs'[run'].line = saved_line
                 /\ runs'[run'].pos = saved_position
       /\ sent' # sent => AllChannelsConnected]_vars

C21_Witness ==
    /\ iter = 2
    /\ run = 2
    /\ Len(agents) = 2
    /\ pc = "line"
    /\ saved_line > 0
    /\ AllChannelsConnected
    /\ \E i \in 1..Len(sent) : sent[i].run = 2


\* C22: send never retries.  In a call of send attempt_send is called at most
\* once, so the data is written at most once; on a connected client whose
\* write fails with a transport error the call raises ReconnectionRequired
\* after this one attempt, with nothing written.
C22_SendNeverRetries ==
    last.op = "send" =>
        /\ last.tries <= 1
        /\ last.wrote => (last.tries = 1 /\ last.raised = "none")
        /\ (last.pre.connected /\ last.outcome = "bterr") =>
             /\ last.raised = "ReconnectionRequired"
             /\ last.tries = 1
             /\ ~last.wrote

C22_Witness ==
    /\ last.op = "send"
    /\ last.pre.connected
    /\ last.outcome = "bterr"
    /\ last.raised = "ReconnectionRequired"
    /\ last.tries = 1


\* a report with zero modifier byte and no keycode
IsRelease(rep) ==
    /\ rep[1] = 161
    /\ rep[2] = 1
    /\ \A i \in 3..Len(rep) : rep[i] = 0

\* the reports a step added to the log
Added == [i \in 1..(Len(sent') - Len(sent)) |-> sent'[Len(sent) + i].rep]

\* a step of the loop body that sent reports, each taken by the channel, and
\* raised nothing
SoundSendingStep ==
    /\ pc \in {"line", "string"}
    /\ pc' \in {"line", "string"}
    /\ faults' = faults
    /\ Len(sent') > Len(sent)

\* C23: keypresses and chords are press-then-release.  When a character of a
\* STRING text, a TAB or ENTER line or a modifier chord is sent and the
\* channel takes every report, exactly two reports are sent, a press report
\* and then the all-zero release report of the encoder; and every command
\* line that sent reports this way, PRIVATE_BROWSER and VOLUME_UP too, ends
\* with a report of zero modifier and zero keycodes.
C23_PressThenRelease ==
    [][SoundSendingStep =>
         /\ IsRelease(Added[Len(Added)])
         /\ (\/ pc = "string"
             \/ \E p \in {S_TAB, S_ENTER} \cup ModifierWords :
                  startswith(eff_line, p))
              => /\ Len(Added) = 2
                 /\ ~IsRelease(Added[1])
                 /\ Added[2] = <<161, 1, 0, 0, 0, 0, 0, 0, 0, 0, 0>>]_vars

C23_Witness ==
    /\ script = <<L_BLANK, L_SHIFT_a, L_STRING_AB>>
    /\ pc = "done"
    /\ faults = 0
    /\ Len(runs) = 1
    /\ runs[1].end = "returned"
    /\ ReportsOf(1, 1) = <<<<161, 1, 2, 0, 4, 0, 0, 0, 0, 0, 0>>,
                           <<161, 1, 0, 0, 0, 0, 0, 0, 0, 0, 0>>>>
    /\ Len(ReportsOf(1, 2)) = 4


\* C24: a call of send that returns without raising has written the data to
\* the socket, in one successful sock.send; a call all of whose write
\* attempts met would-block does not return normally.
C24_ReturnMeansWritten ==
    (last.op = "send" /\ last.raised = "none") =>
        /\ last.wrote
        /\ last.tries = 1
        /\ last.outcome # "eagain"


\* what each report-emitting command sends when the channel takes every
\* report
TabReports == <<PressOf("TAB"), PressOf("NONE")>>
EnterReports == <<PressOf("ENTER"), PressOf("NONE")>>
PrivateBrowserReports ==
    << <<161, 1, 3, 0, 17, 0, 0, 0, 0, 0, 0>>, PressOf("NONE") >>
VolumeUpReports ==
    << <<161, 1, 8, 0, 25, 0, 0, 0, 0, 0>> >> \o TabReports
       \o << <<161, 1, 8, 0, 25, 87, 0, 0, 0, 0>>,
             <<161, 1, 0, 0, 0, 0, 0, 0, 0, 0>> >>
ChordReports ==
    {<< <<161, 1, Modifier_Codes[m], 0, Key_Codes[k], 0, 0, 0, 0, 0, 0>>,
        PressOf("NONE") >> : m \in DOMAIN Modifier_Codes, k \in DOMAIN Key_Codes}

\* the loop body executes a line and raises nothing
SoundLineStep ==
    /\ pc = "line"
    /\ line_number < Len(script)
    /\ pc' \in {"line", "string"}
    /\ faults' = faults

\* C25: no line triggers two report-emitting commands.  What the loop body
\* sends for a line before the STRING loop is nothing or the reports of
\* exactly one of TAB, PRIVATE_BROWSER, VOLUME_UP, a modifier chord and ENTER;
\* a line that enters the STRING loop has sent nothing before it; and a DELAY
\* line sends nothing.
C25_OneCommandPerLine ==
    [][SoundLineStep =>
         /\ \/ Added = <<>>
            \/ Added \in {TabReports, PrivateBrowserReports, VolumeUpReports,
                          EnterReports}
            \/ Added \in ChordReports
         /\ pc' = "string" => Added = <<>>
         /\ startswith(eff_line, S_DELAY) => Added = <<>>]_vars

C25_Witness ==
    /\ script = << <<"C", "T", "R", "L", " ", "a">> >>
    /\ pc = "done"
    /\ runs[1].end = "returned"
    /\ ReportsOf(1, 0) = << <<161, 1, 1, 0, 4, 0, 0, 0, 0, 0, 0>>, PressOf("NONE") >>


\* C26: when main's loop is left, by break after the script or by a
\* ConnectionFailure, every registered client is unconnected and no socket
\* is open; and never more than three sockets are open.
C26_NoSocketLeftOpen ==
    /\ (pc = "done" \/ (pc = "aborted" /\ exc.type = "ConnectionFailure"))
         => /\ \A p \in DOMAIN clients : ~clients[p].connected
            /\ openSocks = {}
    /\ Cardinality(openSocks) <= 3


\* the pairing agent processes that are running
LiveAgents == {i \in 1..Len(agents) : agents[i] = "running"}

\* C27: a channel is connected only while the pairing agent started in the
\* iteration is running; the agent is killed only when the connection attempt
\* of its iteration is over, with the channels connected or the attempt
\* failed; and never more than one agent process is running.
C27_AgentAliveWhileConnecting ==
    /\ [][~(openSocks' \subseteq openSocks) =>
            /\ Len(agents) = iter
            /\ agents[iter] = "running"]_vars
    /\ [][(LiveAgents' # LiveAgents /\ LiveAgents' \subseteq LiveAgents) =>
            \/ AllChannelsConnected
            \/ exc.type = "ConnectionFailure"]_vars
    /\ [](Cardinality(LiveAgents) <= 1)

====
